---------------------------- MODULE Spec2Model ----------------------------
(***************************************************************************)
(* A model of pod-eigs (src/pod-eigs/src/main.rs): the bencode codec, the  *)
(* incremental parser, the request dispatcher and the session loop of      *)
(* main().                                                                 *)
(*                                                                         *)
(* Bytes are their integer codes.  Indices are 0-based as in the source;   *)
(* At(buf, idx) reads buf[idx].  A Bencode value is a record [tag, v]; a   *)
(* BTreeMap<Vec<u8>, Bencode> is a function whose domain is the set of its *)
(* keys, and its iteration order is the order of Vec<u8> (LexLess).        *)
(*                                                                         *)
(* Machine integers are narrowed so that their limits are reachable:       *)
(* usize is 0..UsizeMax and i64 is I64Min..I64Max.  An overflowing usize   *)
(* addition panics when the build has overflow checks and wraps modulo     *)
(* UsizeMax + 1 when it has not; both builds are modelled.                 *)
(*                                                                         *)
(* stdin and stdout are reliable pipes: read, write_all and flush return   *)
(* Ok.  The JSON and eigenvalue libraries are a collaborator whose answer  *)
(* for the payload of a run is fixed when the run starts (collab).         *)
(***************************************************************************)
EXTENDS Integers, Sequences, FiniteSets, TLC

\* --------------------------------------------------------------- bounds
\* usize::MAX, narrowed.
UsizeMax == 65535
\* i64::MAX, narrowed.
I64Max == 32767
I64Min == -I64Max - 1
\* The longest list and the largest number of map entries of a generated value.
MaxListLen == 2

\* ------------------------------------------------------- bytes of the format
B_i == 105
B_l == 108
B_d == 100
B_e == 101
B_colon == 58
B_0 == 48
B_9 == 57
\* '-' and '+', the signs str::parse::<i64> accepts.
B_minus == 45
B_plus == 43
\* A byte that begins no value, and the byte 0xFF, part of no UTF-8 text.
B_x == 120
B_ff == 255

\* "op"
K_op == <<111, 112>>
\* "id"
K_id == <<105, 100>>
\* "var"
K_var == <<118, 97, 114>>
\* "args"
K_args == <<97, 114, 103, 115>>
\* "describe"
S_describe == <<100, 101, 115, 99, 114, 105, 98, 101>>
\* "invoke"
S_invoke == <<105, 110, 118, 111, 107, 101>>
\* "shutdown"
S_shutdown == <<115, 104, 117, 116, 100, 111, 119, 110>>
\* "pod.eigs/eigenvalues"
S_var_eigenvalues == <<112, 111, 100, 46, 101, 105, 103, 115, 47, 101, 105, 103, 101, 110, 118, 97, 108, 117, 101, 115>>
\* "missing var"
S_missing_var == <<109, 105, 115, 115, 105, 110, 103, 32, 118, 97, 114>>
\* "unknown var"
S_unknown_var == <<117, 110, 107, 110, 111, 119, 110, 32, 118, 97, 114>>
\* "missing args"
S_missing_args == <<109, 105, 115, 115, 105, 110, 103, 32, 97, 114, 103, 115>>
\* "invalid json input"
S_invalid_json == <<105, 110, 118, 97, 108, 105, 100, 32, 106, 115, 111, 110, 32, 105, 110, 112, 117, 116>>
\* "matrix is not symmetric within epsilon"
S_not_symmetric == <<109, 97, 116, 114, 105, 120, 32, 105, 115, 32, 110, 111, 116, 32, 115, 121, 109, 109, 101, 116, 114, 105, 99, 32, 119, 105, 116, 104, 105, 110, 32, 101, 112, 115, 105, 108, 111, 110>>
\* "failed to serialize output"
S_serialize_failed == <<102, 97, 105, 108, 101, 100, 32, 116, 111, 32, 115, 101, 114, 105, 97, 108, 105, 122, 101, 32, 111, 117, 116, 112, 117, 116>>
\* "ex-message"
K_ex_message == <<101, 120, 45, 109, 101, 115, 115, 97, 103, 101>>
\* "ex-type"
K_ex_type == <<101, 120, 45, 116, 121, 112, 101>>
\* "Exception"
S_Exception == <<69, 120, 99, 101, 112, 116, 105, 111, 110>>
\* "value"
K_value == <<118, 97, 108, 117, 101>>
\* "format"
K_format == <<102, 111, 114, 109, 97, 116>>
\* "json"
S_json == <<106, 115, 111, 110>>
\* "namespaces"
K_namespaces == <<110, 97, 109, 101, 115, 112, 97, 99, 101, 115>>
\* "name"
K_name == <<110, 97, 109, 101>>
\* "pod.eigs"
S_pod_eigs == <<112, 111, 100, 46, 101, 105, 103, 115>>
\* "vars"
K_vars == <<118, 97, 114, 115>>
\* "eigenvalues"
S_eigenvalues == <<101, 105, 103, 101, 110, 118, 97, 108, 117, 101, 115>>
\* "doc"
K_doc == <<100, 111, 99>>
\* "Compute eigenvalues for a 6x6 matrix."
S_doc == <<67, 111, 109, 112, 117, 116, 101, 32, 101, 105, 103, 101, 110, 118, 97, 108, 117, 101, 115, 32, 102, 111, 114, 32, 97, 32, 54, 120, 54, 32, 109, 97, 116, 114, 105, 120, 46>>
\* "arglists"
K_arglists == <<97, 114, 103, 108, 105, 115, 116, 115>>
\* "([m])"
S_arglists == <<40, 91, 109, 93, 41>>

\* ------------------------------------------------------------ value model
\* enum Bencode.
BInt(i) == [tag |-> "Int", v |-> i]
BBytes(b) == [tag |-> "Bytes", v |-> b]
BList(l) == [tag |-> "List", v |-> l]
BDict(d) == [tag |-> "Dict", v |-> d]
\* Option::None, where an Option<Bencode> is held.
None == [tag |-> "None", v |-> 0]
\* BTreeMap::new().
EmptyMap == [k \in {} |-> None]
\* An insert that keeps the value a key already has.
MapInsert_keep_first(m, k, val) ==
    [x \in (DOMAIN m) \cup {k} |-> IF x \in DOMAIN m THEN m[x] ELSE val]
\* BTreeMap::insert: the new value replaces the one the key had.
MapInsert(m, k, val) == [x \in (DOMAIN m) \cup {k} |-> IF x = k THEN val ELSE m[x]]
\* BTreeMap::from of an array of pairs, in the array's order.
RECURSIVE MapFrom(_)
MapFrom(pairs) ==
    IF pairs = <<>> THEN EmptyMap
    ELSE LET last == pairs[Len(pairs)]
         IN MapInsert(MapFrom(SubSeq(pairs, 1, Len(pairs) - 1)), last[1], last[2])

\* enum ParseError, and the results of parse_at.  Panic is the thread's panic.
Ok(val, next) == [k |-> "Ok", val |-> val, next |-> next, msg |-> ""]
NeedMore == [k |-> "NeedMore", val |-> None, next |-> 0, msg |-> ""]
Invalid(msg) == [k |-> "Invalid", val |-> None, next |-> 0, msg |-> msg]
Panic(msg) == [k |-> "Panic", val |-> None, next |-> 0, msg |-> msg]

\* buf[idx], idx counted from 0.
At(buf, idx) == buf[idx + 1]
\* &buf[from..to].
Slice(buf, from, to) == SubSeq(buf, from + 1, to)
\* An order that puts the shorter key first, whatever its bytes.
LexLess_shortlex(a, b) ==
    \/ Len(a) < Len(b)
    \/ /\ Len(a) = Len(b)
       /\ \E i \in 1..Len(b) :
            (\A j \in 1..(i - 1) : a[j] = b[j]) /\ a[i] < b[i]
\* Ord of Vec<u8>: byte-lexicographic, a strict prefix first.
LexLess(a, b) ==
    \E i \in 1..(Len(b)) :
        /\ \A j \in 1..(i - 1) : j <= Len(a) /\ a[j] = b[j]
        /\ i - 1 <= Len(a)
        /\ (i > Len(a) \/ a[i] < b[i])
\* BTreeMap::iter: the keys in ascending order.
RECURSIVE SortedKeys(_)
SortedKeys(keys) ==
    IF keys = {} THEN <<>>
    ELSE LET least == CHOOSE k \in keys : \A o \in keys \ {k} : LexLess(k, o)
         IN <<least>> \o SortedKeys(keys \ {least})

\* ------------------------------------------------------------------ codec
\* Display of an unsigned integer: its decimal digits.
RECURSIVE Dec(_)
Dec(n) == IF n < 10 THEN <<B_0 + n>> ELSE Dec(n \div 10) \o <<B_0 + (n % 10)>>
\* Display of an i64: a '-' before the digits of a negative number.
DecSigned(i) == IF i < 0 THEN <<B_minus>> \o Dec(-i) ELSE Dec(i)

\* std::str::from_utf8(bytes).is_ok(), for texts whose only byte above 0x7F is
\* 0xFF, which no UTF-8 text holds.
Utf8Ok(bytes) == \A j \in 1..Len(bytes) : bytes[j] < 128
IsDigit(b) == B_0 <= b /\ b <= B_9
\* The value of the digits ds[i..], added to acc; -1 once it passes limit
\* (the checked_mul and checked_add of str::parse).
RECURSIVE AccumDigits(_, _, _, _)
AccumDigits(ds, i, acc, limit) ==
    IF i > Len(ds) THEN acc
    ELSE LET nxt == acc * 10 + (ds[i] - B_0)
         IN IF nxt > limit THEN -1 ELSE AccumDigits(ds, i + 1, nxt, limit)

\* parse_int: the Ok value as <<TRUE, value>>, an Err as <<FALSE, message>>.
parse_int(bytes) ==
    IF ~Utf8Ok(bytes) THEN <<FALSE, "invalid int utf8">>
    ELSE LET neg == bytes # <<>> /\ bytes[1] = B_minus
             signed == bytes # <<>> /\ bytes[1] \in {B_minus, B_plus}
             ds == IF signed THEN Tail(bytes) ELSE bytes
             mag == AccumDigits(ds, 1, 0, IF neg THEN -I64Min ELSE I64Max)
         IN IF ds = <<>> \/ \E j \in 1..Len(ds) : ~IsDigit(ds[j])
                THEN <<FALSE, "invalid int">>
            ELSE IF mag < 0 THEN <<FALSE, "invalid int">>
            ELSE <<TRUE, IF neg THEN -mag ELSE mag>>

\* parse_len: str::parse::<usize> accepts a '+' and no '-'.
parse_len(bytes) ==
    IF ~Utf8Ok(bytes) THEN <<FALSE, "invalid len utf8">>
    ELSE LET signed == bytes # <<>> /\ bytes[1] = B_plus
             ds == IF signed THEN Tail(bytes) ELSE bytes
             mag == AccumDigits(ds, 1, 0, UsizeMax)
         IN IF ds = <<>> \/ \E j \in 1..Len(ds) : ~IsDigit(ds[j])
                THEN <<FALSE, "invalid len">>
            ELSE IF mag < 0 THEN <<FALSE, "invalid len">>
            ELSE <<TRUE, mag>>

\* while idx < buf.len() && buf[idx] != stop { idx += 1 }: the idx it ends at.
RECURSIVE ScanTo(_, _, _)
ScanTo(buf, idx, stop) ==
    IF idx < Len(buf) /\ At(buf, idx) # stop THEN ScanTo(buf, idx + 1, stop) ELSE idx

\* The byte-string branch taking a payload that is not all there for an error.
ByteString_short_invalid(buf, idx, len, checks) ==
    LET sum == idx + len
        end == sum % (UsizeMax + 1)
    IN IF sum > UsizeMax /\ checks THEN Panic("attempt to add with overflow")
       ELSE IF end > Len(buf) THEN Invalid("short payload")
       ELSE IF end < idx THEN Panic("slice index starts after its end")
       ELSE Ok(BBytes(Slice(buf, idx, end)), end)
\* idx + len of the byte-string branch, then the slice buf[idx..idx + len]:
\* with overflow checks the addition panics; without, it wraps, and a wrapped
\* end below idx makes the slice panic.
ByteString(buf, idx, len, checks) ==
    LET sum == idx + len
        end == sum % (UsizeMax + 1)
    IN IF sum > UsizeMax /\ checks THEN Panic("attempt to add with overflow")
       ELSE IF end > Len(buf) THEN NeedMore
       ELSE IF end < idx THEN Panic("slice index starts after its end")
       ELSE Ok(BBytes(Slice(buf, idx, end)), end)

RECURSIVE parse_at(_, _, _)
RECURSIVE parse_list(_, _, _, _)
RECURSIVE parse_dict(_, _, _, _)
\* The loop of the b'l' branch, from its head with the items pushed so far.
parse_list(buf, idx, list, checks) ==
    IF idx >= Len(buf) THEN NeedMore
    ELSE IF At(buf, idx) = B_e THEN Ok(BList(list), idx + 1)
    ELSE LET item == parse_at(buf, idx, checks)
         IN IF item.k # "Ok" THEN item
            ELSE parse_list(buf, item.next, Append(list, item.val), checks)

\* The loop of the b'd' branch, from its head with the entries inserted so far.
parse_dict(buf, idx, dict, checks) ==
    IF idx >= Len(buf) THEN NeedMore
    ELSE IF At(buf, idx) = B_e THEN Ok(BDict(dict), idx + 1)
    ELSE LET key == parse_at(buf, idx, checks)
         IN IF key.k # "Ok" THEN key
            ELSE IF key.val.tag # "Bytes" THEN Invalid("dict key must be bytes")
            ELSE LET val == parse_at(buf, key.next, checks)
                 IN IF val.k # "Ok" THEN val
                    ELSE parse_dict(buf, val.next,
                                    MapInsert(dict, key.val.v, val.val), checks)

\* parse_at(buf, idx); checks says whether the build has overflow checks.
parse_at(buf, idx, checks) ==
    IF idx >= Len(buf) THEN NeedMore
    ELSE LET b == At(buf, idx)
         IN IF b = B_i THEN
                LET start == idx + 1
                    stop == ScanTo(buf, start, B_e)
                    int_val == parse_int(Slice(buf, start, stop))
                IN IF stop >= Len(buf) THEN NeedMore
                   ELSE IF ~int_val[1] THEN Invalid(int_val[2])
                   ELSE Ok(BInt(int_val[2]), stop + 1)
            ELSE IF b = B_l THEN parse_list(buf, idx + 1, <<>>, checks)
            ELSE IF b = B_d THEN parse_dict(buf, idx + 1, EmptyMap, checks)
            ELSE IF IsDigit(b) THEN
                LET start == idx
                    stop == ScanTo(buf, idx, B_colon)
                    len == parse_len(Slice(buf, start, stop))
                IN IF stop >= Len(buf) THEN NeedMore
                   ELSE IF ~len[1] THEN Invalid(len[2])
                   ELSE ByteString(buf, stop + 1, len[2], checks)
            ELSE Invalid("invalid bencode prefix")

\* encode_bytes with the separator forgotten: a fault the round trip detects.
encode_bytes_no_separator(data) == Dec(Len(data)) \o data
\* encode_bytes.
encode_bytes(data) == Dec(Len(data)) \o <<B_colon>> \o data

RECURSIVE encode_bencode(_)
RECURSIVE encode_items(_)
RECURSIVE encode_entries(_, _)
\* for item in list { out.extend_from_slice(&encode_bencode(item)) }
encode_items(list) ==
    IF list = <<>> THEN <<>>
    ELSE encode_bencode(Head(list)) \o encode_items(Tail(list))
\* for (k, v) in dict.iter() { ... }, over the keys in their order.
encode_entries(dict, keys) ==
    IF keys = <<>> THEN <<>>
    ELSE encode_bytes(Head(keys)) \o encode_bencode(dict[Head(keys)])
             \o encode_entries(dict, Tail(keys))
\* encode_bencode.
encode_bencode(val) ==
    CASE val.tag = "Int" -> <<B_i>> \o DecSigned(val.v) \o <<B_e>>
      [] val.tag = "Bytes" -> encode_bytes(val.v)
      [] val.tag = "List" -> <<B_l>> \o encode_items(val.v) \o <<B_e>>
      [] val.tag = "Dict" ->
            <<B_d>> \o encode_entries(val.v, SortedKeys(DOMAIN val.v)) \o <<B_e>>

\* -------------------------------------------------------------- dispatcher
\* stdout: held is what write_all has buffered, wire the bytes each flush
\* has handed to the host, one entry per flush.
NewStdout == [held |-> <<>>, wire |-> <<>>]
write_all(stdout, bytes) == [stdout EXCEPT !.held = @ \o bytes]
\* flush that hands nothing over: a response that stays in the buffer.
flush_lost(stdout) == stdout
flush(stdout) ==
    IF stdout.held = <<>> THEN stdout
    ELSE [held |-> <<>>, wire |-> Append(stdout.wire, stdout.held)]

\* dict_get: Some(value) as the value, None as None.
dict_get(dict, key) == IF key \in DOMAIN dict THEN dict[key] ELSE None
\* bencode_str: Some(text) as <<TRUE, text>>, None as <<FALSE, <<>>>>.
bencode_str(val) ==
    IF val.tag = "Bytes" /\ Utf8Ok(val.v) THEN <<TRUE, val.v>> ELSE <<FALSE, <<>>>>

\* response_map with the id left out.
response_map_no_id(id, pairs) == BDict(MapFrom(pairs))
\* response_map: id first when there is one, then the pairs in their order.
response_map(id, pairs) ==
    BDict(MapFrom((IF id # None THEN <<<<K_id, id>>>> ELSE <<>>) \o pairs))

\* handle_describe.
handle_describe(id, stdout) ==
    LET var == BDict(MapFrom(<<<<K_name, BBytes(S_eigenvalues)>>,
                               <<K_doc, BBytes(S_doc)>>,
                               <<K_arglists, BBytes(S_arglists)>>>>))
        ns == BDict(MapFrom(<<<<K_name, BBytes(S_pod_eigs)>>,
                              <<K_vars, BList(<<var>>)>>>>))
        resp == response_map(id, <<<<K_op, BBytes(S_describe)>>,
                                   <<K_format, BBytes(S_json)>>,
                                   <<K_namespaces, BList(<<ns>>)>>>>)
    IN flush(write_all(stdout, encode_bencode(resp)))

\* write_error.
write_error(id, msg, stdout) ==
    LET resp == response_map(id, <<<<K_op, BBytes(S_invoke)>>,
                                   <<K_ex_message, BBytes(msg)>>,
                                   <<K_ex_type, BBytes(S_Exception)>>>>)
    IN flush(write_all(stdout, encode_bencode(resp)))

\* The payload the model's invoke requests carry: "{}".
Payload == <<123, 125>>
\* "{\"eigenvalues\":[]}", standing for the text serde_json::to_string gives.
S_value == <<123, 34, 101, 105, 103, 101, 110, 118, 97, 108, 117, 101, 115, 34, 58, 91, 93, 125>>
\* What lines 348-372 of handle_invoke make of the argument bytes: an error
\* message for write_error, or the text of the value.
Outcomes ==
    { [ok |-> FALSE, text |-> S_invalid_json],
      [ok |-> FALSE, text |-> S_not_symmetric],
      [ok |-> FALSE, text |-> S_serialize_failed],
      [ok |-> TRUE, text |-> S_value] }
\* serde_json::from_slice, build_matrix, eigenvalues_for and
\* serde_json::to_string on arg_bytes: the collaborator's answer, a function
\* of the bytes.
compute(arg_bytes, oracle) ==
    IF arg_bytes \in DOMAIN oracle THEN oracle[arg_bytes]
    ELSE [ok |-> FALSE, text |-> S_invalid_json]

\* The match on args taking a list of exactly one element only.
arg_bytes_of_single(args) ==
    IF args.tag = "List" /\ Len(args.v) = 1 THEN
        (IF args.v[1].tag = "Bytes" THEN <<TRUE, args.v[1].v>> ELSE <<FALSE, <<>>>>)
    ELSE IF args.tag = "Bytes" THEN <<TRUE, args.v>>
    ELSE <<FALSE, <<>>>>
\* The match on args of handle_invoke: Some(bytes) as <<TRUE, bytes>>.
arg_bytes_of(args) ==
    IF args.tag = "List" /\ args.v # <<>> THEN
        (IF args.v[1].tag = "Bytes" THEN <<TRUE, args.v[1].v>> ELSE <<FALSE, <<>>>>)
    ELSE IF args.tag = "Bytes" THEN <<TRUE, args.v>>
    ELSE <<FALSE, <<>>>>

\* handle_invoke with args looked at before var.
handle_invoke_args_first(dict, stdout, oracle) ==
    LET id == dict_get(dict, K_id)
        var == bencode_str(dict_get(dict, K_var))
        arg_bytes == arg_bytes_of(dict_get(dict, K_args))
        output == compute(arg_bytes[2], oracle)
    IN IF ~arg_bytes[1] THEN write_error(id, S_missing_args, stdout)
       ELSE IF ~var[1] THEN write_error(id, S_missing_var, stdout)
       ELSE IF var[2] # S_var_eigenvalues THEN write_error(id, S_unknown_var, stdout)
       ELSE IF ~output.ok THEN write_error(id, output.text, stdout)
       ELSE LET resp == response_map(id, <<<<K_op, BBytes(S_invoke)>>,
                                           <<K_value, BBytes(output.text)>>>>)
            IN flush(write_all(stdout, encode_bencode(resp)))
\* handle_invoke.
handle_invoke(dict, stdout, oracle) ==
    LET id == dict_get(dict, K_id)
        var == bencode_str(dict_get(dict, K_var))
        arg_bytes == arg_bytes_of(dict_get(dict, K_args))
        output == compute(arg_bytes[2], oracle)
    IN IF ~var[1] THEN write_error(id, S_missing_var, stdout)
       ELSE IF var[2] # S_var_eigenvalues THEN write_error(id, S_unknown_var, stdout)
       ELSE IF ~arg_bytes[1] THEN write_error(id, S_missing_args, stdout)
       ELSE IF ~output.ok THEN write_error(id, output.text, stdout)
       ELSE LET resp == response_map(id, <<<<K_op, BBytes(S_invoke)>>,
                                           <<K_value, BBytes(output.text)>>>>)
            IN flush(write_all(stdout, encode_bencode(resp)))

\* handle_message answering an op it does not know with an error response.
handle_message_unknown_error(msg, stdout, oracle) ==
    IF msg.tag # "Dict" THEN stdout
    ELSE LET dict == msg.v
             opt == bencode_str(dict_get(dict, K_op))
             op == IF opt[1] THEN opt[2] ELSE <<>>
             id == dict_get(dict, K_id)
         IN IF op = S_describe THEN handle_describe(id, stdout)
            ELSE IF op = S_invoke THEN handle_invoke(dict, stdout, oracle)
            ELSE write_error(id, S_unknown_var, stdout)
\* handle_message.
handle_message(msg, stdout, oracle) ==
    IF msg.tag # "Dict" THEN stdout
    ELSE LET dict == msg.v
             opt == bencode_str(dict_get(dict, K_op))
             op == IF opt[1] THEN opt[2] ELSE <<>>
             id == dict_get(dict, K_id)
         IN IF op = S_describe THEN handle_describe(id, stdout)
            ELSE IF op = S_invoke THEN handle_invoke(dict, stdout, oracle)
            ELSE stdout

\* The pre-check left out: shutdown is left to handle_message.
is_shutdown_never(msg) == FALSE
\* The pre-check of main on a parsed message: a map whose op is the bytes
\* "shutdown".
is_shutdown(msg) ==
    /\ msg.tag = "Dict"
    /\ dict_get(msg.v, K_op).tag = "Bytes"
    /\ dict_get(msg.v, K_op).v = S_shutdown

\* ---------------------------------------------------------------- session
\* The most items a host script holds.
MaxItems == 2
\* let mut chunk = [0u8; 4096].
ChunkSize == 4096

VARIABLES
    stdin,              \* every byte the host sends before it closes the stream
    pos,                \* how many of them read() has returned
    buffer,             \* main's buffer
    stdout,             \* main's stdout
    stderr,             \* the eprintln! lines, as <<n, msg, buffer-len>>
    PARSE_ERROR_COUNT,  \* the static counter
    pc,                 \* where main is: read, drain, eof, shutdown, panic
    collab,             \* the collaborator's answer for each payload
    checks,             \* whether the build has overflow checks
    script,             \* the items the host's bytes were made from
    reqs,               \* the messages handed to handle_message, in order
    val,                \* codec and dispatcher runs: the value under test
    enc,                \* codec runs: encode_bencode(val)
    res                 \* codec runs: the result of parse_at on enc

vars == <<stdin, pos, buffer, stdout, stderr, PARSE_ERROR_COUNT, pc, collab,
          checks, script, reqs, val, enc, res>>

Min(a, b) == IF a < b THEN a ELSE b
Drop(seq, n) == SubSeq(seq, n + 1, Len(seq))
RECURSIVE Flatten(_)
Flatten(seqs) == IF seqs = <<>> THEN <<>> ELSE Head(seqs) \o Flatten(Tail(seqs))

\* The host's requests.
ReqDescribe == BDict(MapFrom(<<<<K_op, BBytes(S_describe)>>, <<K_id, BInt(1)>>>>))
ReqInvoke ==
    BDict(MapFrom(<<<<K_op, BBytes(S_invoke)>>, <<K_id, BInt(2)>>,
                    <<K_var, BBytes(S_var_eigenvalues)>>,
                    <<K_args, BList(<<BBytes(Payload)>>)>>>>))
ReqShutdown == BDict(MapFrom(<<<<K_op, BBytes(S_shutdown)>>>>))
\* "ping", an op the dispatcher does not know.
ReqPing == BDict(MapFrom(<<<<K_op, BBytes(<<112, 105, 110, 103>>)>>, <<K_id, BInt(5)>>>>))
\* A map with no op at all: the empty map.
ReqNoOp == BDict(EmptyMap)

\* What a script is made of: encoded messages, and corrupt bytes -- a byte
\* that begins no value, an unclosed list marker, and a length literal at
\* usize::MAX.
Messages ==
    [describe |-> ReqDescribe, invoke |-> ReqInvoke, shutdown |-> ReqShutdown,
     ping |-> ReqPing, noop |-> ReqNoOp]
MessageNames == DOMAIN Messages
CorruptNames == {"x", "l", "max"}
ItemNames == MessageNames \cup CorruptNames
ItemBytes(name) ==
    CASE name = "x" -> <<B_x>>
      [] name = "l" -> <<B_l>>
      [] name = "max" -> Dec(UsizeMax) \o <<B_colon>>
      [] OTHER -> encode_bencode(Messages[name])
ScriptBytes(items) == Flatten([j \in 1..Len(items) |-> ItemBytes(items[j])])
Scripts == UNION {[1..n -> ItemNames] : n \in 1..MaxItems}
Has(items, name) == \E j \in 1..Len(items) : items[j] = name

\* The answers of the collaborator in a session: one error, and the value.
SessionOutcomes ==
    { [ok |-> FALSE, text |-> S_not_symmetric], [ok |-> TRUE, text |-> S_value] }

\* The state of main() when the loop is first entered.
Init ==
    /\ script \in Scripts
    /\ stdin = ScriptBytes(script)
    /\ pos = 0
    /\ buffer = <<>>
    /\ stdout = NewStdout
    /\ stderr = <<>>
    /\ PARSE_ERROR_COUNT = 0
    /\ pc = "read"
    /\ collab \in IF Has(script, "invoke") THEN [{Payload} -> SessionOutcomes]
                  ELSE {[b \in {Payload} |-> [ok |-> TRUE, text |-> S_value]]}
    /\ checks \in IF Has(script, "max") THEN BOOLEAN ELSE {TRUE}
    /\ reqs = <<>>
    /\ val = None
    /\ enc = <<>>
    /\ res = NeedMore


\* stdin.read(&mut chunk) returns n > 0; buffer.extend_from_slice(&chunk[..n]).
Read ==
    /\ pc = "read"
    /\ \E n \in 1..Min(ChunkSize, Len(stdin) - pos) :
        /\ buffer' = buffer \o SubSeq(stdin, pos + 1, pos + n)
        /\ pos' = pos + n
    /\ pc' = "drain"
    /\ UNCHANGED <<stdin, stdout, stderr, PARSE_ERROR_COUNT, collab, checks,
                   script, reqs, val, enc, res>>

\* stdin.read returns 0: break, and main returns Ok(()).
ReadEof ==
    /\ pc = "read"
    /\ pos = Len(stdin)
    /\ pc' = "eof"
    /\ UNCHANGED <<stdin, pos, buffer, stdout, stderr, PARSE_ERROR_COUNT,
                   collab, checks, script, reqs, val, enc, res>>

\* parse_at(&buffer, 0) at the head of the inner loop.
Parsed == parse_at(buffer, 0, checks)

\* Ok((msg, used)) with op shutdown: drain the message and return Ok(()).
DrainShutdown ==
    /\ pc = "drain"
    /\ Parsed.k = "Ok"
    /\ is_shutdown(Parsed.val)
    /\ buffer' = Drop(buffer, Parsed.next)
    /\ pc' = "shutdown"
    /\ UNCHANGED <<stdin, pos, stdout, stderr, PARSE_ERROR_COUNT, collab,
                   checks, script, reqs, val, enc, res>>

\* The drain of a message taking everything buffered with it.
DrainMessage_clear ==
    /\ pc = "drain"
    /\ Parsed.k = "Ok"
    /\ ~is_shutdown(Parsed.val)
    /\ buffer' = <<>>
    /\ stdout' = handle_message(Parsed.val, stdout, collab)
    /\ reqs' = Append(reqs, Parsed.val)
    /\ pc' = "drain"
    /\ UNCHANGED <<stdin, pos, stderr, PARSE_ERROR_COUNT, collab, checks,
                   script, val, enc, res>>
\* The drain of a message going back to the read with what is left unparsed.
DrainMessage_break ==
    /\ pc = "drain"
    /\ Parsed.k = "Ok"
    /\ ~is_shutdown(Parsed.val)
    /\ buffer' = Drop(buffer, Parsed.next)
    /\ stdout' = handle_message(Parsed.val, stdout, collab)
    /\ reqs' = Append(reqs, Parsed.val)
    /\ pc' = "read"
    /\ UNCHANGED <<stdin, pos, stderr, PARSE_ERROR_COUNT, collab, checks,
                   script, val, enc, res>>
\* Ok((msg, used)) otherwise: drain the message and handle_message(msg).
DrainMessage ==
    /\ pc = "drain"
    /\ Parsed.k = "Ok"
    /\ ~is_shutdown(Parsed.val)
    /\ buffer' = Drop(buffer, Parsed.next)
    /\ stdout' = handle_message(Parsed.val, stdout, collab)
    /\ reqs' = Append(reqs, Parsed.val)
    /\ pc' = "drain"
    /\ UNCHANGED <<stdin, pos, stderr, PARSE_ERROR_COUNT, collab, checks,
                   script, val, enc, res>>

\* NeedMore taken for a failure: the partial message is thrown away.
DrainNeedMore_clear ==
    /\ pc = "drain"
    /\ Parsed.k = "NeedMore"
    /\ buffer' = <<>>
    /\ pc' = "read"
    /\ UNCHANGED <<stdin, pos, stdout, stderr, PARSE_ERROR_COUNT, collab,
                   checks, script, reqs, val, enc, res>>
\* Err(ParseError::NeedMore): break to the read.
DrainNeedMore ==
    /\ pc = "drain"
    /\ Parsed.k = "NeedMore"
    /\ pc' = "read"
    /\ UNCHANGED <<stdin, pos, buffer, stdout, stderr, PARSE_ERROR_COUNT,
                   collab, checks, script, reqs, val, enc, res>>

\* Recovery by clearing the whole buffer, which the comment in main warns of.
DrainInvalid_clear ==
    /\ pc = "drain"
    /\ Parsed.k = "Invalid"
    /\ PARSE_ERROR_COUNT' = (PARSE_ERROR_COUNT + 1) % (UsizeMax + 1)
    /\ stderr' = Append(stderr, <<PARSE_ERROR_COUNT + 1, Parsed.msg, Len(buffer)>>)
    /\ buffer' = <<>>
    /\ pc' = "read"
    /\ UNCHANGED <<stdin, pos, stdout, collab, checks, script, reqs, val, enc, res>>
\* The resynchronization with its fetch_add left out.
DrainInvalid_uncounted ==
    /\ pc = "drain"
    /\ Parsed.k = "Invalid"
    /\ stderr' = Append(stderr, <<PARSE_ERROR_COUNT + 1, Parsed.msg, Len(buffer)>>)
    /\ IF buffer # <<>>
           THEN buffer' = Drop(buffer, 1) /\ pc' = "drain"
           ELSE buffer' = buffer /\ pc' = "read"
    /\ UNCHANGED <<stdin, pos, stdout, PARSE_ERROR_COUNT, collab, checks,
                   script, reqs, val, enc, res>>
\* The resynchronization dropping two bytes where it has them.
DrainInvalid_skip_two ==
    /\ pc = "drain"
    /\ Parsed.k = "Invalid"
    /\ PARSE_ERROR_COUNT' = (PARSE_ERROR_COUNT + 1) % (UsizeMax + 1)
    /\ stderr' = Append(stderr, <<PARSE_ERROR_COUNT + 1, Parsed.msg, Len(buffer)>>)
    /\ IF buffer # <<>>
           THEN buffer' = Drop(buffer, Min(2, Len(buffer))) /\ pc' = "drain"
           ELSE buffer' = buffer /\ pc' = "read"
    /\ UNCHANGED <<stdin, pos, stdout, collab, checks, script, reqs, val, enc, res>>
\* Err(ParseError::Invalid(msg)): count, report, drop one byte and continue;
\* break when the buffer is empty.
DrainInvalid ==
    /\ pc = "drain"
    /\ Parsed.k = "Invalid"
    /\ PARSE_ERROR_COUNT' = (PARSE_ERROR_COUNT + 1) % (UsizeMax + 1)
    /\ stderr' = Append(stderr, <<PARSE_ERROR_COUNT + 1, Parsed.msg, Len(buffer)>>)
    /\ IF buffer # <<>>
           THEN buffer' = Drop(buffer, 1) /\ pc' = "drain"
           ELSE buffer' = buffer /\ pc' = "read"
    /\ UNCHANGED <<stdin, pos, stdout, collab, checks, script, reqs, val, enc, res>>

\* parse_at panics: the process ends.
DrainPanic ==
    /\ pc = "drain"
    /\ Parsed.k = "Panic"
    /\ pc' = "panic"
    /\ UNCHANGED <<stdin, pos, buffer, stdout, stderr, PARSE_ERROR_COUNT,
                   collab, checks, script, reqs, val, enc, res>>

Next ==
    \/ Read
    \/ ReadEof
    \/ DrainShutdown
    \/ DrainMessage
    \/ DrainNeedMore
    \/ DrainInvalid
    \/ DrainPanic

Spec == Init /\ [][Next]_vars

\* ------------------------------------------------------------- codec runs
\* Integers and byte strings of generated values: the limits of i64, a
\* negative number, bytes that are markers of the format, a byte above 0x7F,
\* and a text whose length has two digits.
Ints == {I64Min, -10, 0, I64Max}
ByteStrings == {<<>>, <<B_e>>, <<B_0, B_colon>>, <<B_ff, B_i>>, S_missing_var}
Atoms == {BInt(i) : i \in Ints} \cup {BBytes(b) : b \in ByteStrings}
\* Keys of generated maps.
Keys == {<<>>, <<B_e>>, <<B_0, B_colon>>, <<B_ff, B_i>>}
ListsOver(S) == UNION {{BList(l) : l \in [1..n -> S]} : n \in 0..MaxListLen}
DictsOver(S) ==
    UNION {{BDict(d) : d \in [ks -> S]} :
           ks \in {ks \in SUBSET Keys : Cardinality(ks) <= MaxListLen}}
Level1 == ListsOver(Atoms) \cup DictsOver(Atoms)
\* A list or a map inside a list or a map.
Level2 ==
    {BList(<<v>>) : v \in Level1} \cup {BList(<<BInt(0), v>>) : v \in Level1}
        \cup {BDict([k \in {K_id} |-> v]) : v \in Level1}
Values == Atoms \cup Level1 \cup Level2

\* The variables the session owns, at rest in codec and dispatcher runs.
SessionIdle ==
    /\ stdin = <<>>
    /\ pos = 0
    /\ buffer = <<>>
    /\ stderr = <<>>
    /\ PARSE_ERROR_COUNT = 0
    /\ script = <<>>
    /\ reqs = <<>>

InitCodec ==
    /\ SessionIdle
    /\ stdout = NewStdout
    /\ collab = [b \in {Payload} |-> [ok |-> TRUE, text |-> S_value]]
    /\ checks \in BOOLEAN
    /\ val \in Values
    /\ enc = <<>>
    /\ res = NeedMore
    /\ pc = "value"

\* encode_bencode(&val).
Encode ==
    /\ pc = "value"
    /\ enc' = encode_bencode(val)
    /\ pc' = "encoded"
    /\ UNCHANGED <<stdin, pos, buffer, stdout, stderr, PARSE_ERROR_COUNT,
                   collab, checks, script, reqs, val, res>>

\* parse_at(&enc, 0).
Parse ==
    /\ pc = "encoded"
    /\ res' = parse_at(enc, 0, checks)
    /\ pc' = "parsed"
    /\ UNCHANGED <<stdin, pos, buffer, stdout, stderr, PARSE_ERROR_COUNT,
                   collab, checks, script, reqs, val, enc>>

NextCodec ==
    \/ Encode
    \/ Parse

SpecCodec == InitCodec /\ [][NextCodec]_vars

\* -------------------------------------------------------- dispatcher runs
\* The id, var and args a generated request may hold; None is the absent field.
Ids ==
    {None, BInt(42), BBytes(<<B_ff, B_e>>), BList(<<BInt(1)>>),
     BDict([k \in {K_id} |-> BInt(1)])}
Vars ==
    {None, BInt(5), BBytes(<<B_ff>>), BBytes(S_var_eigenvalues),
     BBytes(S_eigenvalues)}
Argss ==
    {None, BInt(5), BDict(EmptyMap), BList(<<>>), BBytes(Payload),
     BList(<<BBytes(Payload)>>), BList(<<BBytes(Payload), BBytes(Payload)>>),
     BList(<<BBytes(Payload), BInt(5)>>), BList(<<BInt(5)>>),
     BList(<<BInt(5), BBytes(Payload)>>)}
\* A map of the fields that are present.
Request(op, id, var, args) ==
    BDict(MapFrom(SelectSeq(<<<<K_op, BBytes(op)>>, <<K_id, id>>,
                              <<K_var, var>>, <<K_args, args>>>>,
                            LAMBDA pair : pair[2] # None)))
Requests ==
    {Request(S_invoke, id, var, args) : id \in Ids, var \in Vars, args \in Argss}
        \cup {Request(S_describe, id, None, None) : id \in Ids}
\* Whether handle_invoke asks the collaborator.
ReachesCompute(msg) ==
    /\ dict_get(msg.v, K_op) = BBytes(S_invoke)
    /\ dict_get(msg.v, K_var) = BBytes(S_var_eigenvalues)
    /\ arg_bytes_of(dict_get(msg.v, K_args))[1]

InitDispatch ==
    /\ SessionIdle
    /\ stdout = NewStdout
    /\ val \in Requests
    /\ collab \in IF ReachesCompute(val) THEN [{Payload} -> Outcomes]
                  ELSE {[b \in {Payload} |-> [ok |-> TRUE, text |-> S_value]]}
    /\ checks = TRUE
    /\ enc = <<>>
    /\ res = NeedMore
    /\ pc = "request"

\* handle_message(msg, &mut stdout).
Dispatch ==
    /\ pc = "request"
    /\ stdout' = handle_message(val, stdout, collab)
    /\ pc' = "responded"
    /\ UNCHANGED <<stdin, pos, buffer, stderr, PARSE_ERROR_COUNT, collab,
                   checks, script, reqs, val, enc, res>>

NextDispatch == Dispatch

SpecDispatch == InitDispatch /\ [][NextDispatch]_vars

\* -------------------------------------------------------- truncation runs
InitTrunc == InitCodec /\ checks = TRUE

\* parse_at on the bytes of enc that have arrived: a strict prefix of it.
ParsePrefix ==
    /\ pc = "encoded"
    /\ \E n \in 0..(Len(enc) - 1) :
        /\ enc' = SubSeq(enc, 1, n)
        /\ res' = parse_at(SubSeq(enc, 1, n), 0, checks)
    /\ pc' = "prefix"
    /\ UNCHANGED <<stdin, pos, buffer, stdout, stderr, PARSE_ERROR_COUNT,
                   collab, checks, script, reqs, val>>

NextTrunc ==
    \/ Encode
    \/ ParsePrefix

SpecTrunc == InitTrunc /\ [][NextTrunc]_vars

\* ------------------------------------------------------------ parser runs
\* The longest buffer of the buffers enumerated byte by byte.
MaxBufLen == 4
\* b'1'.
B_1 == 49
\* The bytes such a buffer is made of: the markers, the separator, two
\* digits, the signs, a byte that begins no value and a byte above 0x7F.
ParseAlphabet ==
    {B_i, B_l, B_d, B_e, B_colon, B_0, B_1, B_minus, B_plus, B_x, B_ff}
ShortInputs == UNION {[1..n -> ParseAlphabet] : n \in 0..MaxBufLen}
\* Literals at the limits of i64 and usize, and one past them; the length
\* literals stand alone, with no payload behind them.
LimitInputs ==
    {<<B_i>> \o Dec(I64Max) \o <<B_e>>,
     <<B_i>> \o Dec(I64Max + 1) \o <<B_e>>,
     <<B_i, B_minus>> \o Dec(I64Max + 1) \o <<B_e>>,
     <<B_i, B_minus>> \o Dec(I64Max + 2) \o <<B_e>>,
     <<B_i>> \o Dec(I64Max + 1),
     Dec(UsizeMax + 1) \o <<B_colon>>}
        \cup {Dec(UsizeMax - k) \o <<B_colon>> : k \in 0..8}
        \cup {<<B_l>> \o Dec(UsizeMax) \o <<B_colon>>}
\* The entries a written map may carry, a key more than once among them.
EntryKeys == {<<>>, <<B_x>>}
EntryValues == {BInt(0), BBytes(<<B_e>>), BList(<<>>)}
EntrySeqs == UNION {[1..n -> EntryKeys \X EntryValues] : n \in 2..3}
\* A map as a writer emits it that keeps the entries as they come.
RECURSIVE WriteEntries(_)
WriteEntries(es) ==
    IF es = <<>> THEN <<>>
    ELSE encode_bytes(Head(es)[1]) \o encode_bencode(Head(es)[2])
             \o WriteEntries(Tail(es))
WrittenMap(es) == <<B_d>> \o WriteEntries(es) \o <<B_e>>
MapInputs == {WrittenMap(es) : es \in EntrySeqs}
ParseInputs == ShortInputs \cup LimitInputs \cup MapInputs

InitParse ==
    /\ SessionIdle
    /\ stdout = NewStdout
    /\ collab = [b \in {Payload} |-> [ok |-> TRUE, text |-> S_value]]
    /\ enc \in ParseInputs
    /\ checks \in IF enc \in LimitInputs THEN BOOLEAN ELSE {TRUE}
    /\ val = None
    /\ res = NeedMore
    /\ pc = "encoded"

NextParse == Parse

SpecParse == InitParse /\ [][NextParse]_vars

\* ================================================================= claims
\* C1 (round trip): for every value, parsing its encoding at offset 0 is
\* Ok with an equal value and a consumed length equal to the encoding's length.
C1_RoundTrip == pc = "parsed" => res = Ok(val, Len(enc))
\* A map holding a two-entry map has made the round trip.
C1_Witness ==
    /\ pc = "parsed"
    /\ val.tag = "Dict"
    /\ \E k \in DOMAIN val.v :
        val.v[k].tag = "Dict" /\ Cardinality(DOMAIN val.v[k].v) = 2
    /\ res.k = "Ok"
    /\ res.val = val
    /\ res.next = Len(enc)

\* The op of a message as the host wrote it: the bytes under "op" of a map.
OpOf(msg) ==
    IF msg.tag = "Dict" /\ K_op \in DOMAIN msg.v /\ msg.v[K_op].tag = "Bytes"
        THEN msg.v[K_op].v
        ELSE <<>>
\* The id of a message or of a response, None when it has none.
IdOf(msg) == IF msg.tag = "Dict" /\ K_id \in DOMAIN msg.v THEN msg.v[K_id] ELSE None
\* The requests among the handled messages that are owed a response.
Answerable(msgs) == SelectSeq(msgs, LAMBDA m : OpOf(m) \in {S_describe, S_invoke})
\* One flushed segment read back as the host reads it.
Decoded(segment) == parse_at(segment, 0, TRUE)
\* The segment is exactly one encoded map.
OneMap(segment) ==
    LET d == Decoded(segment)
    IN d.k = "Ok" /\ d.next = Len(segment) /\ d.val.tag = "Dict"

\* C2 (one response per request, in order): whenever main is about to parse
\* or to read, nothing written is unflushed, and the flushed segments are,
\* one for one and in order, the responses to the describe and invoke
\* requests handled so far: each exactly one encoded map carrying its
\* request's op and id.
C2_OneResponsePerRequest ==
    LET owed == Answerable(reqs)
    IN /\ stdout.held = <<>>
       /\ Len(stdout.wire) = Len(owed)
       /\ \A j \in 1..Len(owed) :
            LET d == Decoded(stdout.wire[j])
            IN /\ d.k = "Ok" /\ d.next = Len(stdout.wire[j]) /\ d.val.tag = "Dict"
               /\ OpOf(d.val) = OpOf(owed[j])
               /\ IdOf(d.val) = IdOf(owed[j])
\* An invoke and then a describe have both been answered, in that order.
C2_Witness ==
    /\ pc = "read"
    /\ reqs = <<ReqInvoke, ReqDescribe>>
    /\ Len(stdout.wire) = 2
    /\ IdOf(Decoded(stdout.wire[1]).val) = BInt(2)
    /\ IdOf(Decoded(stdout.wire[2]).val) = BInt(1)

\* The inner loop of main run to its end on one buffer: the state it leaves.
RECURSIVE DrainAll(_)
DrainAll(st) ==
    LET r == parse_at(st.buffer, 0, checks)
    IN CASE r.k = "Ok" /\ OpOf(r.val) = S_shutdown ->
                [st EXCEPT !.buffer = Drop(@, r.next), !.pc = "shutdown"]
         [] r.k = "Ok" /\ OpOf(r.val) # S_shutdown ->
                DrainAll([st EXCEPT !.buffer = Drop(@, r.next),
                                    !.stdout = handle_message(r.val, @, collab),
                                    !.reqs = Append(@, r.val)])
         [] r.k = "NeedMore" -> [st EXCEPT !.pc = "read"]
         [] r.k = "Invalid" ->
                DrainAll([st EXCEPT !.buffer = Tail(@), !.count = @ + 1])
         [] r.k = "Panic" -> [st EXCEPT !.pc = "panic"]
\* What the session makes of bytes handed over in a single read.
FedWhole(bytes) ==
    DrainAll([buffer |-> bytes, stdout |-> NewStdout, reqs |-> <<>>,
              count |-> 0, pc |-> "drain"])
\* What the session has made of the bytes read so far.
Observed ==
    [buffer |-> buffer, stdout |-> stdout, reqs |-> reqs,
     count |-> PARSE_ERROR_COUNT, pc |-> IF pc = "eof" THEN "read" ELSE pc]
\* Item j of the script starts at a message boundary the session reaches:
\* the items before it are messages, none of them shutdown.
Aligned(j) ==
    \A i \in 1..(j - 1) : script[i] \in MessageNames \ {"shutdown"}
\* The offset in stdin at which item j starts.
StartOf(j) == Len(ScriptBytes(SubSeq(script, 1, j - 1)))

\* C3 (incremental equivalence): however the bytes were split over reads,
\* once the drain is over the buffer, the handled messages, the responses and
\* the error count are those of the same bytes read in one piece; and while
\* only a strict prefix of a message has arrived, at a boundary, the parse
\* has said NeedMore and the buffer holds exactly that prefix.
C3_IncrementalEquivalence ==
    /\ pc # "drain" => Observed = FedWhole(SubSeq(stdin, 1, pos))
    /\ \A j \in 1..Len(script) :
         (/\ pc = "read"
          /\ script[j] \in MessageNames
          /\ Aligned(j)
          /\ StartOf(j) <= pos
          /\ pos < StartOf(j + 1))
         => /\ buffer = SubSeq(stdin, StartOf(j) + 1, pos)
            /\ Len(reqs) = j - 1
            /\ PARSE_ERROR_COUNT = 0
\* An invoke has been handled and answered, all of a describe but its last
\* byte is buffered, and main is back at the read.
C3_Witness ==
    /\ pc = "read"
    /\ script = <<"invoke", "describe">>
    /\ pos = Len(stdin) - 1
    /\ buffer = SubSeq(stdin, StartOf(2) + 1, pos)
    /\ reqs = <<ReqInvoke>>
    /\ Len(stdout.wire) = 1

\* The messages of items 1..n of the script, in order.
MessagesOf(n) == [i \in 1..n |-> Messages[script[i]]]

\* C4 (shutdown precedence): a shutdown message is never handed to
\* handle_message; when it arrives at a message boundary, also as the first
\* input, the drain that parses it ends the session with the messages before
\* it handled and answered and nothing more, the bytes that follow it left
\* in the buffer as they came; and an ended session takes no further step.
C4_ShutdownPrecedence ==
    /\ \A i \in 1..Len(reqs) : OpOf(reqs[i]) # S_shutdown
    /\ \A j \in 1..Len(script) :
         (script[j] = "shutdown" /\ Aligned(j) /\ pos >= StartOf(j + 1)
              /\ pc # "drain")
         => /\ pc = "shutdown"
            /\ buffer = SubSeq(stdin, StartOf(j + 1) + 1, pos)
            /\ reqs = MessagesOf(j - 1)
            /\ Len(stdout.wire) = Len(Answerable(MessagesOf(j - 1)))
    /\ pc = "shutdown" => ~ENABLED Next
\* The session has ended on a shutdown that came first, with the describe
\* request that followed it in the same read unparsed in the buffer and
\* unanswered.
C4_Witness ==
    /\ pc = "shutdown"
    /\ script = <<"shutdown", "describe">>
    /\ pos = Len(stdin)
    /\ buffer = ItemBytes("describe")
    /\ reqs = <<>>
    /\ stdout = NewStdout

\* The script is corrupt items, all of them among `corrupt`, and then one
\* describe or invoke request, its last item.
CorruptThenRequest(corrupt) ==
    /\ Len(script) >= 2
    /\ script[Len(script)] \in {"describe", "invoke"}
    /\ \A i \in 1..(Len(script) - 1) : script[i] \in corrupt
\* Every byte has been delivered and main waits in read().
Quiescent == pc = "read" /\ pos = Len(stdin)
\* The request that ends the script was handled as one message and answered
\* once, and nothing else was.
LastRequestAnswered ==
    /\ reqs = <<Messages[script[Len(script)]]>>
    /\ Len(stdout.wire) = 1
    /\ OneMap(stdout.wire[1])
    /\ IdOf(Decoded(stdout.wire[1]).val) = IdOf(Messages[script[Len(script)]])

\* C5 as claimed: after any corrupt bytes, a request that arrives afterwards
\* is parsed at its own boundary and answered once, so the host that has
\* sent it is not left waiting.
C5_RecoveryFromAnyCorruption ==
    (CorruptThenRequest(CorruptNames) /\ Quiescent) => LastRequestAnswered
\* C5, amended (recovery without desynchronization): after any sequence of
\* bytes none of which can begin a value, received at a message boundary, a
\* describe or invoke request is parsed as one message at its own boundary
\* and answered exactly once by the time main is back at the read, one parse
\* error counted per corrupt byte.
C5_RecoveryFromInvalidPrefixBytes ==
    (CorruptThenRequest({"x"}) /\ Quiescent)
    => /\ LastRequestAnswered
       /\ buffer = <<>>
       /\ PARSE_ERROR_COUNT = Len(script) - 1
\* A byte that begins no value was dropped and the invoke request behind it
\* answered.
C5_Witness ==
    /\ Quiescent
    /\ script = <<"x", "invoke">>
    /\ LastRequestAnswered
    /\ PARSE_ERROR_COUNT = 1

\* The script is one byte that begins no value and then one message.
OneBadByteThenMessage ==
    /\ Len(script) = 2
    /\ script[1] = "x"
    /\ script[2] \in MessageNames

\* C6 (resync liveness): for one byte that cannot begin a value followed by
\* an encoded message, the drain reports Malformed once, before anything is
\* handled, and then parses the message whole: the counter ends at exactly 1
\* with one diagnostic line, the message is the only one handled (or, a
\* shutdown, ends the session), and the buffer is empty.
C6_ResyncLiveness ==
    OneBadByteThenMessage
    => /\ PARSE_ERROR_COUNT <= 1
       /\ Len(stderr) = PARSE_ERROR_COUNT
       /\ (reqs # <<>> \/ pc = "shutdown") => PARSE_ERROR_COUNT = 1
       /\ (pos = Len(stdin) /\ pc # "drain")
          => /\ PARSE_ERROR_COUNT = 1
             /\ stderr[1][1] = 1
             /\ buffer = <<>>
             /\ IF script[2] = "shutdown"
                    THEN pc = "shutdown" /\ reqs = <<>>
                    ELSE pc \in {"read", "eof"} /\ reqs = <<Messages[script[2]]>>
\* The bad byte and a describe request came in one read: one Malformed, then
\* the request handled and answered.
C6_Witness ==
    /\ script = <<"x", "describe">>
    /\ pc = "read"
    /\ pos = Len(stdin)
    /\ PARSE_ERROR_COUNT = 1
    /\ stderr = <<<<1, "invalid bencode prefix", Len(stdin)>>>>
    /\ reqs = <<ReqDescribe>>
    /\ Len(stdout.wire) = 1

\* C7 (only stream closure or shutdown ends the session): the session is
\* running, or it has ended on a zero-length read with every byte read, or
\* on a shutdown message.
C7_OnlyClosureOrShutdownEnds ==
    \/ pc \in {"read", "drain"}
    \/ pc = "eof" /\ pos = Len(stdin)
    \/ pc = "shutdown"
\* The part of C7 that holds: no handler ends the session.  A message that
\* was handled, an invoke answered with an error among them, leaves main at
\* the head of the drain loop.
C7_HandlersKeepSession ==
    [][reqs' # reqs => pc' = "drain"]_vars


\* A field of the request under test, None when it is absent.
Field(key) == dict_get(val.v, key)
\* The response to the request under test, read back from the wire.
Resp == Decoded(stdout.wire[1]).val
\* Its ex-message, empty when it is no error response.
ErrorOf(resp) ==
    IF K_ex_message \in DOMAIN resp.v THEN resp.v[K_ex_message].v ELSE <<>>
\* An invoke request naming the supported operation has been answered.
InvokeSupportedAnswered ==
    /\ pc = "responded"
    /\ OpOf(val) = S_invoke
    /\ Field(K_var) = BBytes(S_var_eigenvalues)
\* Shapes of args.
BareBytes(args) == args.tag = "Bytes"
SingleBytesList(args) ==
    args.tag = "List" /\ Len(args.v) = 1 /\ args.v[1].tag = "Bytes"
FirstIsBytes(args) ==
    args.tag = "List" /\ Len(args.v) >= 1 /\ args.v[1].tag = "Bytes"

\* C8 as claimed: args passes the check only as a single-element list of a
\* byte string or as a bare byte string; every other args is answered
\* "missing args".
C8_SingleElementListOrBytes ==
    InvokeSupportedAnswered
    => (ErrorOf(Resp) = S_missing_args
        <=> ~(SingleBytesList(Field(K_args)) \/ BareBytes(Field(K_args))))
\* C8, amended (invoke args shape): args passes the check exactly when it is
\* a bare byte string or a non-empty list whose first element is a byte
\* string, whatever follows that element; every other args (absent, an
\* integer, a map, an empty list, a list whose first element is not a byte
\* string) is answered "missing args", and an args that passes is answered
\* with what the collaborator makes of the byte string.
C8_FirstElementOrBytes ==
    InvokeSupportedAnswered
    => /\ ErrorOf(Resp) = S_missing_args
          <=> ~(FirstIsBytes(Field(K_args)) \/ BareBytes(Field(K_args)))
       /\ (FirstIsBytes(Field(K_args)) \/ BareBytes(Field(K_args)))
          => IF collab[Payload].ok
                 THEN dict_get(Resp.v, K_value) = BBytes(collab[Payload].text)
                 ELSE ErrorOf(Resp) = collab[Payload].text
\* A list of a byte string and an integer passed the check and was answered
\* with a value.
C8_Witness ==
    /\ InvokeSupportedAnswered
    /\ Field(K_args) = BList(<<BBytes(Payload), BInt(5)>>)
    /\ dict_get(Resp.v, K_value) = BBytes(S_value)

\* C9 (invoke validation order): a var that is absent or is no text is
\* answered "missing var" and a text other than the supported name "unknown
\* var", whatever args is; "missing args" is answered only to a request
\* whose var is the supported name.
C9_ValidationOrder ==
    (pc = "responded" /\ OpOf(val) = S_invoke)
    => /\ (Field(K_var).tag # "Bytes" \/ ~Utf8Ok(Field(K_var).v))
          => ErrorOf(Resp) = S_missing_var
       /\ (Field(K_var).tag = "Bytes" /\ Utf8Ok(Field(K_var).v)
              /\ Field(K_var).v # S_var_eigenvalues)
          => ErrorOf(Resp) = S_unknown_var
       /\ ErrorOf(Resp) = S_missing_args
          => Field(K_var) = BBytes(S_var_eigenvalues)
\* A request without var and with an args that would pass was answered
\* "missing var".
C9_Witness ==
    /\ pc = "responded"
    /\ OpOf(val) = S_invoke
    /\ Field(K_var) = None
    /\ Field(K_args) = BList(<<BBytes(Payload)>>)
    /\ ErrorOf(Resp) = S_missing_var

\* C10 (id echo): the response to a describe or invoke request is one map
\* whose id is the request's id, of whatever kind, and which has no id when
\* the request had none.
C10_IdEcho ==
    pc = "responded"
    => /\ Len(stdout.wire) = 1
       /\ OneMap(stdout.wire[1])
       /\ IdOf(Resp) = IdOf(val)
       /\ (K_id \in DOMAIN Resp.v) <=> (K_id \in DOMAIN val.v)
\* An invoke answered with a value echoes an id that is a list.
C10_Witness ==
    /\ pc = "responded"
    /\ IdOf(val) = BList(<<BInt(1)>>)
    /\ IdOf(Resp) = BList(<<BInt(1)>>)
    /\ K_value \in DOMAIN Resp.v


\* A map whose op is none of describe, invoke, shutdown, or is absent.
UnrecognizedOp(msg) ==
    msg.tag = "Dict" /\ OpOf(msg) \notin {S_describe, S_invoke, S_shutdown}
\* The drain step that takes a completely parsed message of unrecognized op:
\* it removes exactly the message, writes nothing, hands the message to
\* handle_message and stays in the drain loop.
UnrecognizedStepSilent ==
    (pc = "drain" /\ Parsed.k = "Ok" /\ UnrecognizedOp(Parsed.val))
    => /\ buffer' = Drop(buffer, Parsed.next)
       /\ stdout' = stdout
       /\ stderr' = stderr
       /\ reqs' = Append(reqs, Parsed.val)
       /\ pc' = "drain"
\* A describe or invoke request that follows a message of unrecognized op, at
\* a message boundary, is handled next and answered once all of it is read.
NextAfterUnrecognized ==
    \A j \in 1..(Len(script) - 1) :
        (/\ script[j] \in {"ping", "noop"}
         /\ script[j + 1] \in {"describe", "invoke"}
         /\ Aligned(j)
         /\ pos >= StartOf(j + 2)
         /\ pc # "drain")
        => /\ Len(reqs) >= j + 1
           /\ reqs[j] = Messages[script[j]]
           /\ reqs[j + 1] = Messages[script[j + 1]]
           /\ Len(stdout.wire) >= Len(Answerable(MessagesOf(j + 1)))
           /\ LET d == Decoded(stdout.wire[Len(Answerable(MessagesOf(j + 1)))])
              IN d.k = "Ok" /\ IdOf(d.val) = IdOf(Messages[script[j + 1]])

\* C11 (unrecognized op is silent): a completely parsed top-level map whose
\* op is none of describe, invoke, shutdown, an absent op included, is
\* removed from the buffer, nothing is written to stdout, the session stays
\* in its drain loop, and the request that follows is handled and answered.
C11_UnrecognizedOpSilent ==
    /\ [][UnrecognizedStepSilent]_vars
    /\ [](NextAfterUnrecognized)
\* A map without op and then a describe request: both handled, one response,
\* the one to the describe.
C11_Witness ==
    /\ Quiescent
    /\ script = <<"noop", "describe">>
    /\ reqs = <<ReqNoOp, ReqDescribe>>
    /\ Len(stdout.wire) = 1
    /\ IdOf(Decoded(stdout.wire[1]).val) = BInt(1)
    /\ buffer = <<>>


\* Every order in which the keys of a map can be inserted or written.
Orders(keys) ==
    {o \in [1..Cardinality(keys) -> keys] :
        \A i, j \in 1..Cardinality(keys) : i # j => o[i] # o[j]}
\* The map built by inserting the entries of dict in the given order.
InsertedIn(dict, order) ==
    BDict(MapFrom([i \in 1..Len(order) |-> <<order[i], dict[order[i]]>>]))
\* The bytes of a writer that emits the entries in the given order.
WrittenIn(dict, order) == <<B_d>> \o encode_entries(dict, order) \o <<B_e>>
\* The keys of an encoded map in the order they stand in the bytes, read
\* from idx to the end marker.
RECURSIVE EmittedKeys(_, _)
EmittedKeys(buf, idx) ==
    IF idx >= Len(buf) \/ At(buf, idx) = B_e THEN <<>>
    ELSE LET key == parse_at(buf, idx, TRUE)
             value == parse_at(buf, key.next, TRUE)
         IN <<key.val.v>> \o EmittedKeys(buf, value.next)
\* a stands before b byte by byte, a strict prefix before its extensions.
RECURSIVE BytewiseBefore(_, _)
BytewiseBefore(a, b) ==
    IF b = <<>> THEN FALSE
    ELSE IF a = <<>> THEN TRUE
    ELSE IF a[1] # b[1] THEN a[1] < b[1]
    ELSE BytewiseBefore(Tail(a), Tail(b))

\* C12 (canonical uniqueness): a map encodes to the same bytes whatever the
\* order in which its entries were inserted, and whatever the order in which
\* they stood in the bytes it was decoded from; and the keys stand in the
\* encoding in strictly ascending byte-lexicographic order.
C12_CanonicalUniqueness ==
    (pc \in {"encoded", "parsed"} /\ val.tag = "Dict")
    => /\ \A order \in Orders(DOMAIN val.v) :
            /\ encode_bencode(InsertedIn(val.v, order)) = enc
            /\ LET r == parse_at(WrittenIn(val.v, order), 0, TRUE)
               IN r.k = "Ok" /\ encode_bencode(r.val) = enc
       /\ LET ks == EmittedKeys(enc, 1)
          IN /\ Len(ks) = Cardinality(DOMAIN val.v)
             /\ \A i, j \in 1..Len(ks) : i < j => BytewiseBefore(ks[i], ks[j])
\* A map of the keys "e" and "0:" has been encoded: "0:" stands first,
\* though a writer could have put "e" first.
C12_Witness ==
    /\ pc = "encoded"
    /\ val.tag = "Dict"
    /\ DOMAIN val.v = {<<B_e>>, <<B_0, B_colon>>}
    /\ EmittedKeys(enc, 1) = <<<<B_0, B_colon>>, <<B_e>>>>
    /\ WrittenIn(val.v, <<<<B_e>>, <<B_0, B_colon>>>>) # enc


\* The drain step on an Invalid result: one byte leaves the front of the
\* buffer and the rest stays as it was, the counter grows by one and one
\* line goes to stderr, nothing goes to stdout, no message is handled, and
\* the parse is tried again.
InvalidStepDropsOneByte ==
    (pc = "drain" /\ Parsed.k = "Invalid")
    => /\ buffer # <<>>
       /\ buffer' = SubSeq(buffer, 2, Len(buffer))
       /\ PARSE_ERROR_COUNT' = PARSE_ERROR_COUNT + 1
       /\ stderr' = Append(stderr, <<PARSE_ERROR_COUNT', Parsed.msg, Len(buffer)>>)
       /\ stdout' = stdout
       /\ reqs' = reqs
       /\ pc' = "drain"

\* C13 (single-byte resynchronization): on every Invalid result the session
\* loop removes exactly one byte from the front of the buffer, leaves the
\* remaining bytes unchanged and in order, increments PARSE_ERROR_COUNT by
\* exactly one, writes nothing to stdout, and parses again from the new
\* front; it never clears the whole buffer.
C13_SingleByteResync == [][InvalidStepDropsOneByte]_vars
\* A bad byte and a describe request came in one read; the bad byte is gone,
\* the request is whole in the buffer, still to be parsed.
C13_Witness ==
    /\ pc = "drain"
    /\ script = <<"x", "describe">>
    /\ pos = Len(stdin)
    /\ buffer = ItemBytes("describe")
    /\ PARSE_ERROR_COUNT = 1
    /\ Len(stderr) = 1
    /\ stdout = NewStdout
    /\ reqs = <<>>


\* The text of the literal at the front of buf: the bytes from offset start
\* up to the terminator stop, or to the end of buf when it is not there.
LiteralText(buf, start, stop) == Slice(buf, start, ScanTo(buf, start, stop))
Terminated(buf, start, stop) == ScanTo(buf, start, stop) < Len(buf)
AllDigits(t) == \A j \in 1..Len(t) : IsDigit(t[j])
\* The digits of an integer literal: its text without a leading '-'.
Magnitude(t) == IF t # <<>> /\ t[1] = B_minus THEN Tail(t) ELSE t
\* An integer literal that is not an optional '-' and digits within i64: it
\* holds a byte that is no digit, or it is terminated with no digit in it or
\* with digits past the limit.
MalformedInt(buf) ==
    LET t == LiteralText(buf, 1, B_e)
        neg == t # <<>> /\ t[1] = B_minus
    IN \/ ~AllDigits(Magnitude(t))
       \/ /\ Terminated(buf, 1, B_e)
          /\ \/ Magnitude(t) = <<>>
             \/ AccumDigits(Magnitude(t), 1, 0, IF neg THEN -I64Min ELSE I64Max) < 0
\* A length literal holding a byte that is no digit, or terminated with
\* digits past usize.
MalformedLen(buf) ==
    LET t == LiteralText(buf, 0, B_colon)
    IN \/ ~AllDigits(t)
       \/ Terminated(buf, 0, B_colon) /\ AccumDigits(t, 1, 0, UsizeMax) < 0
\* The front of buf is a byte that begins no value, or a malformed literal.
MalformedFront(buf) ==
    /\ buf # <<>>
    /\ IF buf[1] = B_i THEN MalformedInt(buf)
       ELSE IF IsDigit(buf[1]) THEN MalformedLen(buf)
       ELSE buf[1] \notin {B_l, B_d}

\* C14 (malformed literals are reported as Malformed): for every buffer
\* whose front is a byte that cannot begin a value, or a malformed length or
\* integer literal, parse_at returns Invalid.
C14_MalformedLiteralsInvalid ==
    (pc = "parsed" /\ MalformedFront(enc)) => res.k = "Invalid"
\* The part of C14 that holds: a byte that begins no value is Invalid at
\* once; a malformed literal is Invalid once its terminator is in the buffer,
\* but for an integer text of a '+' and digits, which is taken as a number.
C14_TerminatedLiteralsInvalid ==
    (pc = "parsed" /\ MalformedFront(enc))
    => /\ (~IsDigit(enc[1]) /\ enc[1] # B_i) => res = Invalid("invalid bencode prefix")
       /\ (IsDigit(enc[1]) /\ Terminated(enc, 0, B_colon)) => res.k = "Invalid"
       /\ (IsDigit(enc[1]) /\ ~Terminated(enc, 0, B_colon)) => res = NeedMore
       /\ (enc[1] = B_i /\ ~Terminated(enc, 1, B_e)) => res = NeedMore
       /\ (enc[1] = B_i /\ Terminated(enc, 1, B_e))
          => LET t == LiteralText(enc, 1, B_e)
             IN IF t # <<>> /\ t[1] = B_plus /\ Tail(t) # <<>> /\ AllDigits(Tail(t))
                       /\ AccumDigits(Tail(t), 1, 0, I64Max) >= 0
                    THEN res.k = "Ok"
                    ELSE res.k = "Invalid"


\* C15 (truncation is never Malformed): parse_at on any strict prefix of the
\* encoding of a value, the empty prefix included, returns NeedMore: not
\* Invalid, and not Ok either.
C15_TruncationNeedsMore == pc = "prefix" => res = NeedMore
\* A map holding a list, cut two bytes short: both end markers are missing
\* (or the list's last element is cut), and the answer was NeedMore.
C15_Witness ==
    /\ pc = "prefix"
    /\ val.tag = "Dict"
    /\ K_id \in DOMAIN val.v
    /\ val.v[K_id].tag = "List"
    /\ val.v[K_id].v # <<>>
    /\ Len(enc) = Len(encode_bencode(val)) - 2
    /\ res = NeedMore


\* The drain step on an Ok result: the consumed length covers the bytes of
\* the one value at the front, which parse alone to the same result whatever
\* follows them; exactly those bytes leave the buffer, the rest stays as it
\* was, and main parses again from offset 0 unless the message was shutdown.
CompleteStepExact ==
    (pc = "drain" /\ Parsed.k = "Ok")
    => /\ 1 <= Parsed.next
       /\ Parsed.next <= Len(buffer)
       /\ SubSeq(buffer, 1, Parsed.next) = encode_bencode(Parsed.val)
       /\ parse_at(SubSeq(buffer, 1, Parsed.next), 0, checks) = Parsed
       /\ buffer' = SubSeq(buffer, Parsed.next + 1, Len(buffer))
       /\ pc' = IF is_shutdown(Parsed.val) THEN "shutdown" ELSE "drain"

\* C16 (exact consumption): on Ok the consumed length is exactly the number
\* of bytes of the single top-level value at the front of the buffer, the
\* session loop removes exactly that prefix, and the bytes after it, a
\* pipelined message or part of one, stay in the buffer unchanged to be
\* parsed next from offset 0.
C16_ExactConsumption == [][CompleteStepExact]_vars
\* A describe request and all of an invoke request but its last byte came in
\* one read; the describe has been drained and answered, and the partial
\* invoke is what the buffer holds, about to be parsed.
C16_Witness ==
    /\ pc = "drain"
    /\ script = <<"describe", "invoke">>
    /\ pos = Len(stdin) - 1
    /\ reqs = <<ReqDescribe>>
    /\ buffer = SubSeq(stdin, StartOf(2) + 1, pos)
    /\ Len(stdout.wire) = 1


\* C17 (session buffer invariant): whenever main is at stdin.read, or has
\* left the loop on a zero-length read, parse_at(&buffer, 0) is NeedMore: the
\* buffer holds no complete message and no Invalid front; it is empty or the
\* beginning of a value not yet complete.
C17_BufferAtReadNeedsMore ==
    pc \in {"read", "eof"} => Parsed = NeedMore
\* A ping has been handled and the first five bytes of an invoke request
\* wait in the buffer while main reads.
C17_Witness ==
    /\ pc = "read"
    /\ script = <<"ping", "invoke">>
    /\ pos = StartOf(2) + 5
    /\ buffer = SubSeq(stdin, StartOf(2) + 1, pos)
    /\ reqs = <<ReqPing>>
    /\ Parsed = NeedMore


\* The keys of a sequence of entries, and the value of the last entry that
\* carries key k.
KeysOf(es) == {es[i][1] : i \in 1..Len(es)}
LastValue(es, k) ==
    LET last == CHOOSE i \in 1..Len(es) :
                    es[i][1] = k /\ \A j \in (i + 1)..Len(es) : es[j][1] # k
    IN es[last][2]

\* C18 (duplicate map keys are last-write-wins): decoding a map whose bytes
\* carry a key more than once is Ok, not Invalid; the map holds each key
\* once, bound to the value of its last occurrence, and the consumed length
\* covers every occurrence.
C18_DuplicateKeysLastWins ==
    (pc = "parsed" /\ Len(enc) > MaxBufLen /\ enc[1] = B_d)
    => \A es \in EntrySeqs :
         enc = WrittenMap(es)
         => /\ res.k = "Ok"
            /\ res.next = Len(enc)
            /\ res.val.tag = "Dict"
            /\ DOMAIN res.val.v = KeysOf(es)
            /\ \A k \in KeysOf(es) : res.val.v[k] = LastValue(es, k)
\* The key "x" came first with the integer 0 and last with the bytes "e",
\* another key between them: the map holds "x" once, bound to "e".
C18_Witness ==
    /\ pc = "parsed"
    /\ enc = WrittenMap(<<<<(<<B_x>>), BInt(0)>>, <<(<<>>), BList(<<>>)>>,
                          <<(<<B_x>>), BBytes(<<B_e>>)>>>>)
    /\ res.k = "Ok"
    /\ res.next = Len(enc)
    /\ DOMAIN res.val.v = {<<>>, <<B_x>>}
    /\ res.val.v[<<B_x>>] = BBytes(<<B_e>>)


\* C19 (drain termination): every turn of the drain loop either removes at
\* least one byte from the buffer (an Ok result consumes at least one, an
\* Invalid result drops exactly one) and goes on or ends on shutdown, or
\* leaves the loop on NeedMore for the read; so the loop is over, back at the
\* read or ended on shutdown, within buffer-length turns.
C19_EachTurnShrinksOrExits ==
    [][pc = "drain"
       => \/ pc' \in {"drain", "shutdown"} /\ Len(buffer') < Len(buffer)
          \/ pc' = "read" /\ buffer' = buffer /\ Parsed = NeedMore]_vars
\* The part of C19 that holds: a turn that does neither is a panic of
\* parse_at, which ends the loop as well, and the process with it.
C19_EachTurnShrinksExitsOrPanics ==
    [][pc = "drain"
       => \/ pc' \in {"drain", "shutdown"} /\ Len(buffer') < Len(buffer)
          \/ pc' = "read" /\ buffer' = buffer /\ Parsed = NeedMore
          \/ pc' = "panic" /\ buffer' = buffer /\ Parsed.k = "Panic"]_vars


\* C20 (no overflow in byte-string bounds): for every buffer, one whose
\* length literal is any usize up to the maximum included, parse_at returns
\* Ok, NeedMore or Invalid, an Ok within the buffer; it does not abort.
C20_NoOverflowNoAbort ==
    pc = "parsed"
    => /\ res.k \in {"Ok", "NeedMore", "Invalid"}
       /\ res.k = "Ok" => res.next <= Len(enc)
\* The length literal at offset idx of buf is a usize, and the offset behind
\* its separator plus that length is past usize::MAX.
LengthOverflows(buf, idx) ==
    /\ IsDigit(At(buf, idx))
    /\ Terminated(buf, idx, B_colon)
    /\ LET len == parse_len(LiteralText(buf, idx, B_colon))
       IN len[1] /\ ScanTo(buf, idx, B_colon) + 1 + len[2] > UsizeMax
\* The part of C20 that holds: parse_at aborts only on such a literal, and
\* on every such literal at the front of the buffer, in both builds; and an
\* Ok never reaches past the buffer.
C20_AbortsExactlyOnOverflow ==
    pc = "parsed"
    => /\ res.k = "Panic" => \E idx \in 0..(Len(enc) - 1) : LengthOverflows(enc, idx)
       /\ (enc # <<>> /\ LengthOverflows(enc, 0)) => res.k = "Panic"
       /\ res.k = "Ok" => res.next <= Len(enc)

=============================================================================
